---- MODULE Spec2Model ----
(***************************************************************************)
(* The four query scripts of .github/scripts: get_milestone_number.py,     *)
(* get_issue_milestone.py, get_milestone_open_issues.py and                *)
(* get_project_name.py.  One run of one script is one behaviour.  The      *)
(* response of every GET is an input of the step that issues it and is     *)
(* drawn from the set of responses the endpoint can give.  Required        *)
(* arguments and environment variables are present in every run.           *)
(*                                                                         *)
(* stdout and stderr hold the lines the script's own print calls write;    *)
(* an uncaught exception ends the run with pc = "aborted" and its message  *)
(* in `exception`.                                                         *)
(***************************************************************************)
EXTENDS Integers, Sequences, FiniteSets, TLC

VARIABLES script, argv, pc, page, number, r, requests, served, stdout, stderr, exception

vars == <<script, argv, pc, page, number, r, requests, served, stdout, stderr, exception>>

(* ---------------------------- bounds ----------------------------------- *)

\* Pages of milestones the listing endpoint can serve before it is exhausted.
MaxPages == 2

\* Milestones on one served page (the real limit, per_page, is 100).
MaxPageLen == 2

(* ------------------------ values and inputs ---------------------------- *)

Scripts == {"get_milestone_number", "get_issue_milestone",
            "get_milestone_open_issues", "get_project_name"}

\* Python's None, and a present value, for a variable or field that may be None.
None == <<>>
Some(x) == <<x>>

Titles == {"v1.0", "v2.0"}
Numbers == {3, 7}
States == {"open", "closed", "all"}
OpenIssueCounts == {0, 4, 12}
ProjectNames == {"Roadmap", "v2.0"}
StatusCodes == {200, 404, 500}

IssueUrl == "https://api.github.com/repos/user/repo/issues/5"
ProjectUrl == "https://api.github.com/projects/9"

GITHUB_REPOSITORY == "user/repo"
GITHUB_TOKEN == "secret"

PerPage == 100

\* A milestone as the API's JSON gives it (the fields the scripts read).
Milestones == [title : Titles, number : Numbers]

RECURSIVE SeqsUpTo(_, _)
SeqsUpTo(S, n) ==
    IF n = 0 THEN {<<>>}
    ELSE LET shorter == SeqsUpTo(S, n - 1)
         IN  shorter \cup {Append(s, x) : s \in shorter, x \in S}

MilestonePages == SeqsUpTo(Milestones, MaxPageLen)

\* A response whose status is not 200; its body is never read.
ErrorResponses ==
    {[status_code |-> s, json |-> [message |-> "error"]] : s \in StatusCodes \ {200}}

\* What GET /repos/{repo}/milestones?page=p can answer: any page of
\* milestones (an empty one included) or a failure; after MaxPages pages the
\* list is exhausted and a status-200 answer is the empty page.
MilestoneListResponses(p) ==
    {[status_code |-> 200, json |-> l] :
        l \in IF p > MaxPages THEN {<<>>} ELSE MilestonePages}
    \cup ErrorResponses

IssueResponses ==
    {[status_code |-> 200, json |-> [milestone |-> m]] :
        m \in {None} \cup {Some(x) : x \in Milestones}}
    \cup ErrorResponses

MilestoneResponses ==
    {[status_code |-> 200, json |-> [open_issues |-> n]] : n \in OpenIssueCounts}
    \cup ErrorResponses

ProjectResponses ==
    {[status_code |-> 200, json |-> [name |-> n]] : n \in ProjectNames}
    \cup ErrorResponses

(* --------------------------- conversions ------------------------------- *)

Digit(d) ==
    CASE d = 0 -> "0" [] d = 1 -> "1" [] d = 2 -> "2" [] d = 3 -> "3"
      [] d = 4 -> "4" [] d = 5 -> "5" [] d = 6 -> "6" [] d = 7 -> "7"
      [] d = 8 -> "8" [] d = 9 -> "9"

\* str(n) of a non-negative int, as print and the f-strings format it.
RECURSIVE PyStr(_)
PyStr(n) == IF n < 10 THEN Digit(n) ELSE PyStr(n \div 10) \o Digit(n % 10)

HttpFailed(code) == "HTTP request failed: code " \o PyStr(code)

(* ------------------------------- Init ---------------------------------- *)

Init ==
    /\ script \in Scripts
    /\ argv \in CASE script = "get_milestone_number" ->
                        {<<t, s>> : t \in Titles, s \in States}
                  [] script = "get_issue_milestone" -> {<<IssueUrl>>}
                  [] script = "get_milestone_open_issues" ->
                        {<<PyStr(n)>> : n \in Numbers}
                  [] script = "get_project_name" -> {<<ProjectUrl>>}
    /\ pc = "start"
    /\ page = 0
    /\ number = None
    /\ r = None
    /\ requests = <<>>
    /\ served = <<>>
    /\ stdout = <<>>
    /\ stderr = <<>>
    /\ exception = None

(* --------------------- get_milestone_number.py ------------------------- *)

title == argv[1]
state == argv[2]

MilestonesUrl == "https://api.github.com/repos/" \o GITHUB_REPOSITORY \o "/milestones"

V3Headers ==
    [Accept |-> "application/vnd.github.v3+json",
     Authorization |-> "token " \o GITHUB_TOKEN]

InertiaHeaders ==
    [Accept |-> "application/vnd.github.inertia-preview+json",
     Authorization |-> "token " \o GITHUB_TOKEN]

\* Lines 5-20: read the inputs, announce, page = 1, number = None.
MN_Start ==
    /\ script = "get_milestone_number"
    /\ pc = "start"
    /\ stderr' = Append(stderr, "Fetching number of milestone '" \o title
                                \o "' of repo '" \o GITHUB_REPOSITORY \o "'")
    /\ page' = 1
    /\ number' = None
    /\ pc' = "loop"
    /\ UNCHANGED <<script, argv, r, requests, served, stdout, exception>>

\* MN_Get with the status check lost: a failed request is issued again.
MN_Get_RetriesFailure ==
    /\ script = "get_milestone_number"
    /\ pc = "loop"
    /\ number = None
    /\ \E resp \in MilestoneListResponses(page) :
        /\ requests' = Append(requests,
                [url |-> MilestonesUrl, headers |-> V3Headers,
                 params |-> [state |-> state, sort |-> "due_on", direction |-> "asc",
                             per_page |-> PerPage, page |-> page]])
        /\ served' = Append(served, resp)
        /\ IF resp.status_code # 200
           THEN /\ pc' = "loop"
                /\ UNCHANGED <<r, exception>>
           ELSE /\ r' = resp.json
                /\ pc' = "scan"
                /\ exception' = exception
    /\ UNCHANGED <<script, argv, page, number, stdout, stderr>>

\* Lines 21-34: the loop test, the GET of the current page and its status check.
MN_Get ==
    /\ script = "get_milestone_number"
    /\ pc = "loop"
    /\ number = None
    /\ \E resp \in MilestoneListResponses(page) :
        /\ requests' = Append(requests,
                [url |-> MilestonesUrl, headers |-> V3Headers,
                 params |-> [state |-> state, sort |-> "due_on", direction |-> "asc",
                             per_page |-> PerPage, page |-> page]])
        /\ served' = Append(served, resp)
        /\ IF resp.status_code # 200
           THEN /\ exception' = Some(HttpFailed(resp.status_code))
                /\ pc' = "aborted"
                /\ r' = r
           ELSE /\ r' = resp.json
                /\ pc' = "scan"
                /\ exception' = exception
    /\ UNCHANGED <<script, argv, page, number, stdout, stderr>>

\* ForMilestones with the title test inverted.
RECURSIVE ForMilestones_OtherTitle(_, _, _, _)
ForMilestones_OtherTitle(rr, t, num, err) ==
    IF rr = <<>> THEN [number |-> num, stderr |-> err]
    ELSE LET milestone == Head(rr)
         IN  IF milestone.title # t
             THEN ForMilestones_OtherTitle(Tail(rr), t, Some(milestone.number),
                      Append(err, "Milestone number: " \o PyStr(milestone.number)))
             ELSE ForMilestones_OtherTitle(Tail(rr), t, num, err)

\* Lines 40-43: the for loop over the page rr; num is `number` before the
\* loop and err the diagnostic stream before it.
RECURSIVE ForMilestones(_, _, _, _)
ForMilestones(rr, t, num, err) ==
    IF rr = <<>> THEN [number |-> num, stderr |-> err]
    ELSE LET milestone == Head(rr)
         IN  IF milestone.title = t
             THEN ForMilestones(Tail(rr), t, Some(milestone.number),
                      Append(err, "Milestone number: " \o PyStr(milestone.number)))
             ELSE ForMilestones(Tail(rr), t, num, err)

\* MN_Scan without the empty-page check.
MN_Scan_NoEmptyCheck ==
    /\ script = "get_milestone_number"
    /\ pc = "scan"
    /\ LET res == ForMilestones(r, title, number, stderr)
       IN  /\ page' = page + 1
           /\ number' = res.number
           /\ stderr' = res.stderr
           /\ pc' = "loop"
           /\ exception' = exception
    /\ UNCHANGED <<script, argv, r, requests, served, stdout>>

\* MN_Scan advancing the page index by two.
MN_Scan_SkipsPage ==
    /\ script = "get_milestone_number"
    /\ pc = "scan"
    /\ IF r = <<>>
       THEN /\ exception' = Some("Milestone not found")
            /\ pc' = "aborted"
            /\ UNCHANGED <<page, number, stderr>>
       ELSE LET res == ForMilestones(r, title, number, stderr)
            IN  /\ page' = page + 2
                /\ number' = res.number
                /\ stderr' = res.stderr
                /\ pc' = "loop"
                /\ exception' = exception
    /\ UNCHANGED <<script, argv, r, requests, served, stdout>>

\* MN_Scan asking for the same page again when it is empty.
MN_Scan_RetriesEmpty ==
    /\ script = "get_milestone_number"
    /\ pc = "scan"
    /\ IF r = <<>>
       THEN /\ pc' = "loop"
            /\ UNCHANGED <<page, number, stderr, exception>>
       ELSE LET res == ForMilestones(r, title, number, stderr)
            IN  /\ page' = page + 1
                /\ number' = res.number
                /\ stderr' = res.stderr
                /\ pc' = "loop"
                /\ exception' = exception
    /\ UNCHANGED <<script, argv, r, requests, served, stdout>>

\* MN_Scan with the number printed to standard output at every match.
MN_Scan_PrintsInLoop ==
    /\ script = "get_milestone_number"
    /\ pc = "scan"
    /\ IF r = <<>>
       THEN /\ exception' = Some("Milestone not found")
            /\ pc' = "aborted"
            /\ UNCHANGED <<page, number, stderr, stdout>>
       ELSE LET res == ForMilestones(r, title, number, stderr)
                out == ForMilestones(r, title, number, stdout)
            IN  /\ page' = page + 1
                /\ number' = res.number
                /\ stderr' = res.stderr
                /\ stdout' = out.stderr
                /\ pc' = "loop"
                /\ exception' = exception
    /\ UNCHANGED <<script, argv, r, requests, served>>

\* Lines 36-43: the empty-page check, page += 1 and the scan of the page.
MN_Scan ==
    /\ script = "get_milestone_number"
    /\ pc = "scan"
    /\ IF r = <<>>
       THEN /\ exception' = Some("Milestone not found")
            /\ pc' = "aborted"
            /\ UNCHANGED <<page, number, stderr>>
       ELSE LET res == ForMilestones(r, title, number, stderr)
            IN  /\ page' = page + 1
                /\ number' = res.number
                /\ stderr' = res.stderr
                /\ pc' = "loop"
                /\ exception' = exception
    /\ UNCHANGED <<script, argv, r, requests, served, stdout>>

\* Lines 21 and 45: the loop ends once number is set, and number is printed.
MN_Print ==
    /\ script = "get_milestone_number"
    /\ pc = "loop"
    /\ number # None
    /\ stdout' = Append(stdout, PyStr(number[1]))
    /\ pc' = "done"
    /\ UNCHANGED <<script, argv, page, number, r, requests, served, stderr, exception>>

(* ---------------------- get_issue_milestone.py ------------------------- *)

\* Lines 5-14.
IM_Start ==
    /\ script = "get_issue_milestone"
    /\ pc = "start"
    /\ stderr' = Append(stderr, "Fetching milestone of issue at '" \o argv[1] \o "'")
    /\ pc' = "get"
    /\ UNCHANGED <<script, argv, page, number, r, requests, served, stdout, exception>>

\* Lines 16-19.
IM_Get ==
    /\ script = "get_issue_milestone"
    /\ pc = "get"
    /\ \E resp \in IssueResponses :
        /\ requests' = Append(requests, [url |-> argv[1], headers |-> InertiaHeaders])
        /\ served' = Append(served, resp)
        /\ IF resp.status_code # 200
           THEN /\ exception' = Some(HttpFailed(resp.status_code))
                /\ pc' = "aborted"
                /\ r' = r
           ELSE /\ r' = resp.json
                /\ pc' = "report"
                /\ exception' = exception
    /\ UNCHANGED <<script, argv, page, number, stdout, stderr>>

\* IM_Report raising on a null milestone.
IM_Report_RaisesOnNull ==
    /\ script = "get_issue_milestone"
    /\ pc = "report"
    /\ IF r.milestone = None
       THEN /\ exception' = Some("Issue not currently associated with a milestone.")
            /\ pc' = "aborted"
            /\ UNCHANGED <<number, stderr>>
       ELSE LET n == r.milestone[1].number
                name == r.milestone[1].title
            IN  /\ number' = Some(n)
                /\ stderr' = Append(stderr, "Current Milestone: " \o PyStr(n)
                                            \o " (" \o name \o ")")
                /\ pc' = "print"
                /\ exception' = exception
    /\ UNCHANGED <<script, argv, page, r, requests, served, stdout>>

\* Lines 21-26: the null test and the diagnostic line.
IM_Report ==
    /\ script = "get_issue_milestone"
    /\ pc = "report"
    /\ IF r.milestone = None
       THEN /\ stderr' = Append(stderr, "Issue not currently associated with a milestone.")
            /\ number' = number
            /\ pc' = "done"
       ELSE LET n == r.milestone[1].number
                name == r.milestone[1].title
            IN  /\ number' = Some(n)
                /\ stderr' = Append(stderr, "Current Milestone: " \o PyStr(n)
                                            \o " (" \o name \o ")")
                /\ pc' = "print"
    /\ UNCHANGED <<script, argv, page, r, requests, served, stdout, exception>>

\* IM_Print writing the diagnostic line to standard output as well.
IM_Print_AlsoPrintsDiagnostic ==
    /\ script = "get_issue_milestone"
    /\ pc = "print"
    /\ stdout' = stdout \o <<stderr[Len(stderr)], PyStr(number[1])>>
    /\ pc' = "done"
    /\ UNCHANGED <<script, argv, page, number, r, requests, served, stderr, exception>>

\* Line 28.
IM_Print ==
    /\ script = "get_issue_milestone"
    /\ pc = "print"
    /\ stdout' = Append(stdout, PyStr(number[1]))
    /\ pc' = "done"
    /\ UNCHANGED <<script, argv, page, number, r, requests, served, stderr, exception>>

(* ------------------- get_milestone_open_issues.py ---------------------- *)

\* Lines 5-16.
OI_Start ==
    /\ script = "get_milestone_open_issues"
    /\ pc = "start"
    /\ stderr' = Append(stderr, "Fetching open issues of milestone " \o argv[1]
                                \o " of repo '" \o GITHUB_REPOSITORY \o "'")
    /\ pc' = "get"
    /\ UNCHANGED <<script, argv, page, number, r, requests, served, stdout, exception>>

\* Lines 18-21.
OI_Get ==
    /\ script = "get_milestone_open_issues"
    /\ pc = "get"
    /\ \E resp \in MilestoneResponses :
        /\ requests' = Append(requests,
                [url |-> MilestonesUrl \o "/" \o argv[1], headers |-> V3Headers])
        /\ served' = Append(served, resp)
        /\ IF resp.status_code # 200
           THEN /\ exception' = Some(HttpFailed(resp.status_code))
                /\ pc' = "aborted"
                /\ r' = r
           ELSE /\ r' = resp.json
                /\ pc' = "report"
                /\ exception' = exception
    /\ UNCHANGED <<script, argv, page, number, stdout, stderr>>

\* Lines 23-24.
OI_Report ==
    /\ script = "get_milestone_open_issues"
    /\ pc = "report"
    /\ LET open_issues == r.open_issues
       IN  stderr' = Append(stderr, "Open issues: " \o PyStr(open_issues))
    /\ pc' = "print"
    /\ UNCHANGED <<script, argv, page, number, r, requests, served, stdout, exception>>

\* OI_Print writing the milestone number it was given, not the count.
OI_Print_MilestoneNumber ==
    /\ script = "get_milestone_open_issues"
    /\ pc = "print"
    /\ stdout' = Append(stdout, argv[1])
    /\ pc' = "done"
    /\ UNCHANGED <<script, argv, page, number, r, requests, served, stderr, exception>>

\* Line 26.
OI_Print ==
    /\ script = "get_milestone_open_issues"
    /\ pc = "print"
    /\ LET open_issues == r.open_issues
       IN  stdout' = Append(stdout, PyStr(open_issues))
    /\ pc' = "done"
    /\ UNCHANGED <<script, argv, page, number, r, requests, served, stderr, exception>>

(* ------------------------ get_project_name.py -------------------------- *)

\* Lines 5-14.
PN_Start ==
    /\ script = "get_project_name"
    /\ pc = "start"
    /\ stderr' = Append(stderr, "Fetching name of project at '" \o argv[1] \o "'")
    /\ pc' = "get"
    /\ UNCHANGED <<script, argv, page, number, r, requests, served, stdout, exception>>

\* Lines 16-19.
PN_Get ==
    /\ script = "get_project_name"
    /\ pc = "get"
    /\ \E resp \in ProjectResponses :
        /\ requests' = Append(requests, [url |-> argv[1], headers |-> InertiaHeaders])
        /\ served' = Append(served, resp)
        /\ IF resp.status_code # 200
           THEN /\ exception' = Some(HttpFailed(resp.status_code))
                /\ pc' = "aborted"
                /\ r' = r
           ELSE /\ r' = resp.json
                /\ pc' = "report"
                /\ exception' = exception
    /\ UNCHANGED <<script, argv, page, number, stdout, stderr>>

\* Lines 21-22.
PN_Report ==
    /\ script = "get_project_name"
    /\ pc = "report"
    /\ LET name == r.name
       IN  stderr' = Append(stderr, "Project name: " \o name)
    /\ pc' = "print"
    /\ UNCHANGED <<script, argv, page, number, r, requests, served, stdout, exception>>

\* Line 24.
PN_Print ==
    /\ script = "get_project_name"
    /\ pc = "print"
    /\ LET name == r.name
       IN  stdout' = Append(stdout, name)
    /\ pc' = "done"
    /\ UNCHANGED <<script, argv, page, number, r, requests, served, stderr, exception>>

(* --------------------------- specification ----------------------------- *)

Next ==
    \/ MN_Start \/ MN_Get \/ MN_Scan \/ MN_Print
    \/ IM_Start \/ IM_Get \/ IM_Report \/ IM_Print
    \/ OI_Start \/ OI_Get \/ OI_Report \/ OI_Print
    \/ PN_Start \/ PN_Get \/ PN_Report \/ PN_Print

Spec == Init /\ [][Next]_vars

\* Each script is one synchronous thread: a statement that can run does run
\* (every GET is taken to return).
FairSpec == Spec /\ WF_vars(Next)

Terminated == pc \in {"done", "aborted"}

(* ------------------------ vocabulary of the claims --------------------- *)

IsMN == script = "get_milestone_number"

\* The decimal text of the numbers the inputs above contain, written out.
Decimal(n) ==
    CASE n = 0 -> "0" [] n = 3 -> "3" [] n = 4 -> "4" [] n = 7 -> "7"
      [] n = 12 -> "12" [] n = 404 -> "404" [] n = 500 -> "500"

Ok(resp) == resp.status_code = 200

\* The positions of the milestones of page l whose title is exactly t.
Matches(l, t) == {i \in 1..Len(l) : l[i].title = t}

\* served[n] is a status-200, non-empty page without a title match.
Passed(n) ==
    /\ Ok(served[n])
    /\ served[n].json # <<>>
    /\ Matches(served[n].json, title) = {}

\* Page k is the first page with a title match, every response so far has
\* status 200 and every page before k is non-empty.
MatchAt(k) ==
    /\ k \in 1..Len(served)
    /\ \A j \in 1..Len(served) : Ok(served[j])
    /\ Matches(served[k].json, title) # {}
    /\ \A j \in 1..(k - 1) : Passed(j)

\* Page k is a status-200 empty page and no page before it has a title match.
EmptyAt(k) ==
    /\ k \in 1..Len(served)
    /\ Ok(served[k])
    /\ served[k].json = <<>>
    /\ \A j \in 1..(k - 1) : Ok(served[j]) => Matches(served[j].json, title) = {}

(* ------------------------------ claims --------------------------------- *)

\* C1: milestone-number resolution: when every response has status 200 and
\* every page before the first page with a title match is non-empty, the run
\* does not abort, ends normally, and standard output is then exactly one
\* value, the number of a milestone of that page whose title equals the input.
C1_PrintsAMatchingNumber ==
    /\ [](\A k \in 1..Len(served) : (IsMN /\ MatchAt(k)) =>
            /\ pc \in {"scan", "loop", "done"}
            /\ exception = None
            /\ Len(served) = k
            /\ pc # "done" => stdout = <<>>
            /\ pc = "done" =>
                \E i \in Matches(served[k].json, title) :
                    stdout = <<Decimal(served[k].json[i].number)>>)
    /\ ((IsMN /\ \E k \in 1..Len(served) : MatchAt(k)) ~> (pc = "done" /\ Len(stdout) = 1))

C1_Witness ==
    /\ IsMN /\ pc = "done" /\ MatchAt(2)
    /\ served[1].json[1].number = 3
    /\ stdout = <<"7">>

\* C2: milestone-number resolution tie-break: the number printed is the
\* number of the first milestone, in traversal order, whose title equals the
\* input title.
C2_FirstMatchWins ==
    (IsMN /\ pc = "done") =>
        LET l == served[Len(served)].json
            first == CHOOSE i \in Matches(l, title) : \A j \in Matches(l, title) : i <= j
        IN  stdout = <<Decimal(l[first].number)>>

\* C3: in every script, a response whose status is not 200 aborts the run
\* with an error naming the status code; nothing is on standard output and
\* the request it answers is the last one issued.
C3_Non200Aborts ==
    \A n \in 1..Len(served) :
        ~Ok(served[n]) =>
            /\ pc = "aborted"
            /\ exception = <<"HTTP request failed: code " \o Decimal(served[n].status_code)>>
            /\ stdout = <<>>
            /\ Len(requests) = n
            /\ Len(served) = n

C3_Witness ==
    /\ IsMN /\ pc = "aborted"
    /\ Len(requests) = 2
    /\ served[2].status_code = 500
    /\ exception = <<"HTTP request failed: code 500">>

\* C4: milestone-number resolution: a status-200 empty page at index k with
\* no title match on pages 1..k-1 aborts the run with "Milestone not found";
\* nothing is written to standard output and no page after k is requested.
C4_EmptyPageAborts ==
    /\ [](\A k \in 1..Len(served) : (IsMN /\ EmptyAt(k)) =>
            /\ Len(requests) = k
            /\ Len(served) = k
            /\ stdout = <<>>
            /\ pc \in {"scan", "aborted"}
            /\ pc = "aborted" => exception = <<"Milestone not found">>)
    /\ ((IsMN /\ \E k \in 1..Len(served) : EmptyAt(k))
            ~> (pc = "aborted" /\ exception = <<"Milestone not found">> /\ stdout = <<>>))

C4_Witness ==
    /\ IsMN /\ pc = "aborted" /\ EmptyAt(2)
    /\ exception = <<"Milestone not found">>
    /\ page = 2

\* C5: milestone-number resolution: the n-th request carries page index n and
\* the same state, sort, direction and per_page = 100, and a request is
\* followed by another only if its page was non-empty and had no title match
\* (and its status was 200).
C5_PaginationMonotonic ==
    IsMN =>
        /\ Len(served) = Len(requests)
        /\ \A n \in 1..Len(requests) :
            /\ requests[n].params = [state |-> argv[2], sort |-> "due_on",
                                     direction |-> "asc", per_page |-> 100, page |-> n]
            /\ requests[n].url = requests[1].url
            /\ n < Len(requests) => Passed(n)

C5_Witness ==
    /\ IsMN /\ Len(requests) = 3
    /\ requests[3].params.page = 3
    /\ requests[3].params.state = "closed"

\* C6: issue-milestone lookup: for a status-200 issue whose milestone is not
\* null, standard output is exactly one line, the milestone's number, and the
\* line with number and title is on the diagnostic stream only.
C6_IssueMilestonePrinted ==
    (script = "get_issue_milestone" /\ pc = "done" /\ Ok(served[1])
        /\ served[1].json.milestone # <<>>) =>
        LET m == served[1].json.milestone[1]
            line == "Current Milestone: " \o Decimal(m.number) \o " (" \o m.title \o ")"
        IN  /\ stdout = <<Decimal(m.number)>>
            /\ stderr[Len(stderr)] = line
            /\ \A i \in 1..Len(stdout) : stdout[i] # line

C6_Witness ==
    /\ script = "get_issue_milestone" /\ pc = "done"
    /\ stdout = <<"7">>
    /\ stderr[2] = "Current Milestone: 7 (v2.0)"

\* C7: issue-milestone lookup: for a status-200 issue whose milestone is
\* null, standard output stays empty, the run does not abort, and it ends
\* with the no-milestone notice on the diagnostic stream.
C7_NullMilestoneIsNotAnError ==
    (script = "get_issue_milestone" /\ Len(served) = 1 /\ Ok(served[1])
        /\ served[1].json.milestone = <<>>) =>
        /\ stdout = <<>>
        /\ exception = <<>>
        /\ pc \in {"report", "done"}
        /\ pc = "done" =>
              stderr[Len(stderr)] = "Issue not currently associated with a milestone."

C7_Witness ==
    /\ script = "get_issue_milestone" /\ pc = "done"
    /\ served[1].json.milestone = <<>>
    /\ Len(stderr) = 2

\* C8: the open-issue-count and project-name scripts issue exactly one GET
\* per run, and when its status is 200 the only value on standard output is
\* the open_issues (resp. name) field of that response.
C8_SingleRequestScripts ==
    (script \in {"get_milestone_open_issues", "get_project_name"}) =>
        /\ Len(requests) = (IF pc \in {"start", "get"} THEN 0 ELSE 1)
        /\ Len(served) = Len(requests)
        /\ pc # "done" => stdout = <<>>
        /\ pc = "done" =>
            /\ Ok(served[1])
            /\ stdout = IF script = "get_project_name"
                        THEN <<served[1].json.name>>
                        ELSE <<Decimal(served[1].json.open_issues)>>

C8_Witness ==
    /\ script = "get_milestone_open_issues" /\ pc = "done"
    /\ served[1].json.open_issues = 12
    /\ stdout = <<"12">>

\* C9: milestone-number resolution terminates: with at most MaxPages
\* non-empty pages before the empty page, every run ends after at most one
\* request more than the non-empty pages it was served, and never requests a
\* page after a page with a title match, an empty page or a failure.
C9_Terminates ==
    /\ [](IsMN =>
            /\ Len(requests) <= MaxPages + 1
            /\ Len(requests) <=
                 Cardinality({n \in 1..Len(served) :
                                Ok(served[n]) /\ served[n].json # <<>>}) + 1
            /\ \A n \in 1..(Len(served) - 1) : Passed(n))
    /\ (IsMN ~> (pc \in {"done", "aborted"}))

C9_Witness ==
    /\ IsMN /\ pc = "aborted"
    /\ Len(requests) = MaxPages + 1
    /\ \A n \in 1..MaxPages : Passed(n)
    /\ exception = <<"Milestone not found">>

\* C10: in every script at most one value is ever written to standard
\* output, only on normal completion, and nothing follows it: no request and
\* no diagnostic line.
C10_SingleFinalOutput ==
    /\ [](/\ Len(stdout) <= 1
          /\ stdout # <<>> => (pc = "done" /\ exception = <<>>))
    /\ [][(stdout # <<>> => UNCHANGED <<stdout, stderr, requests>>)
          /\ (stdout' # stdout => UNCHANGED <<stderr, requests>>)]_vars

C10_Witness ==
    /\ IsMN /\ pc = "done"
    /\ Len(served) = 1
    /\ Len(stderr) = 3
    /\ stderr[2] = "Milestone number: 3"
    /\ stderr[3] = "Milestone number: 7"
    /\ Len(stdout) = 1

====
